---- MODULE Spec2Model ----
(***************************************************************************)
(* A model of the trip-advisor repository: the MongoDB session store       *)
(* (src/advisor.py MongoDBHandler, Session), the tool-augmented agent task *)
(* runner (src/core/agent.py Agent) and the three-stage advisor pipeline   *)
(* (src/advisor.py Advisor.chat).                                          *)
(*                                                                         *)
(* Three specifications share the variables:                               *)
(*   SpecSession  the session store used through its constructor/update    *)
(*   SpecAgent    one Agent driven directly, as src/test.py does           *)
(*   Spec         advisor.py: Session(), Advisor(session_id), chat turns   *)
(* Each action is one code segment between two external events (a          *)
(* database scope, a completion request, a completion response, a tool     *)
(* invocation, a return to the caller).                                    *)
(***************************************************************************)
EXTENDS Integers, Sequences, FiniteSets, TLC

VARIABLES
    use_ssh,      \* config['mongodb.use_ssh'], read by MongoDBHandler.__init__
    store,        \* the db.sessions collection, in insertion order
    session,      \* the Session object last constructed by Session()
    advisor,      \* the Advisor object (its Session, context, options)
    messages,     \* Agent.messages of every agent
    lastConnect,  \* what the last MongoDBHandler.connect scope did
    lastOp,       \* the last Session constructor/update call and its outcome
    pc,           \* position of the driving program
    turn,         \* the Advisor.chat call in progress or last finished
    task,         \* the Agent.task call in progress or last finished
    turns         \* number of chat/task calls started so far

vars == <<use_ssh, store, session, advisor, messages, lastConnect, lastOp,
          pc, turn, task, turns>>

(***************************************************************************)
(* Bounds of the model.                                                    *)
(***************************************************************************)
MaxToolCalls == 2   \* tool calls in one completion response
MaxTurns == 2       \* chat turns (Spec) or direct task calls (SpecAgent)
MaxDocs == 2        \* documents in the sessions collection

(***************************************************************************)
(* Python values.                                                          *)
(***************************************************************************)
PyNone == [type |-> "NoneType"]
PyStr(t) == [type |-> "str", text |-> t]
PyList(xs) == [type |-> "list", items |-> xs]

\* str(value) as an f-string interpolates it, in tokens.
Repr(v) ==
    IF v.type = "NoneType" THEN <<"None">>
    ELSE IF v.type = "str" THEN v.text
    ELSE <<"[">> \o v.items \o <<"]">>

\* a += b on a Python value: a list is extended in place, None raises TypeError.
IAdd(a, b) ==
    IF a.type = "list" /\ b.type = "list"
    THEN [ok |-> TRUE, value |-> PyList(a.items \o b.items)]
    ELSE [ok |-> FALSE, value |-> a]

IsPrefix(s, t) == Len(s) <= Len(t) /\ SubSeq(t, 1, Len(s)) = s

\* "old is kept as a prefix of new": equal, or a sequence value extended at the end.
\* An absent (None) or empty previous value is a prefix of everything.
GrowsFrom(old, new) ==
    \/ old = new
    \/ old.type = "NoneType"
    \/ old.type = "str" /\ new.type = "str" /\ IsPrefix(old.text, new.text)
    \/ old.type = "list" /\ new.type = "list" /\ IsPrefix(old.items, new.items)

(***************************************************************************)
(* json.loads on the texts the completion API can send.                    *)
(***************************************************************************)
QueryArgs == "{\"query\": \"beach\"}"
CityArgs == "{\"city\": \"Paris\"}"
BadArgs == "query=beach"
Ctx1Json == "{\"user_context\": \"beach\", \"following_question\": \"how long\"}"
Ctx2Json == "{\"user_context\": \"ski\", \"following_question\": \"which month\"}"
EmptyJson == "{}"
PlainText == "Here are some ideas"

JsonLoads(s) ==
    CASE s = QueryArgs -> [ok |-> TRUE, value |-> [query |-> "beach"]]
      [] s = CityArgs -> [ok |-> TRUE, value |-> [city |-> "Paris"]]
      [] s = Ctx1Json -> [ok |-> TRUE, value |->
            [user_context |-> PyStr(<<"beach">>), following_question |-> PyStr(<<"how long">>)]]
      [] s = Ctx2Json -> [ok |-> TRUE, value |->
            [user_context |-> PyStr(<<"ski">>), following_question |-> PyStr(<<"which month">>)]]
      [] s = EmptyJson -> [ok |-> TRUE, value |-> <<>>]
      [] OTHER -> [ok |-> FALSE, value |-> <<>>]

Contents == {Ctx1Json, Ctx2Json, EmptyJson, PlainText}

(***************************************************************************)
(* MongoDBHandler.connect: one scope, from entry to the end of finally.    *)
(* h is the handler ([ssh_tunnel, client]); ctorRaises says whether the    *)
(* MongoClient constructor raises, startRaises whether a tunnel's start    *)
(* does, bodyRaises whether the with-body does.                            *)
(***************************************************************************)
NewHandler == [ssh_tunnel |-> "None", client |-> "None"]

Connect(h, ssh, startRaises, ctorRaises, bodyRaises) ==
    LET \* lines 56-67: the forwarder is built only when one is already there
        tunnel == IF ssh /\ h.ssh_tunnel # "None" THEN "Forwarder" ELSE h.ssh_tunnel
        \* lines 70-71
        startErr == ssh /\ (tunnel = "None" \/ startRaises)
        tunnelStarted == ssh /\ tunnel # "None" /\ ~startRaises
        \* lines 72-77
        ctorErr == ~startErr /\ ctorRaises
        opened == ~startErr /\ ~ctorErr
        client1 == IF opened THEN "open" ELSE h.client
        \* line 79
        bodyErr == opened /\ bodyRaises
        original == IF startErr THEN (IF tunnel = "None" THEN "AttributeError" ELSE "TunnelError")
                    ELSE IF ctorErr THEN "ConfigurationError"
                    ELSE IF bodyErr THEN "BodyError" ELSE "None"
        \* lines 80-83
        stopErr == ssh /\ tunnel = "None"
        tunnelStopped == ssh /\ tunnel # "None"
        closeErr == ~stopErr /\ client1 = "None"
        closed == ~stopErr /\ client1 # "None"
        client2 == IF closed THEN "closed" ELSE client1
    IN  [handler |-> [ssh_tunnel |-> tunnel, client |-> client2],
         bodyRan |-> opened,
         clientOpened |-> opened,
         clientClosed |-> closed,
         tunnelStarted |-> tunnelStarted,
         tunnelStopped |-> tunnelStopped,
         original |-> original,
         teardownRaised |-> stopErr \/ closeErr,
         error |-> IF stopErr \/ closeErr THEN "AttributeError" ELSE original]

NoConnect == [entered |-> FALSE]
ConnectLog(c) ==
    [entered |-> TRUE, clientOpened |-> c.clientOpened, clientClosed |-> c.clientClosed,
     tunnelStarted |-> c.tunnelStarted, tunnelStopped |-> c.tunnelStopped,
     original |-> c.original, teardownRaised |-> c.teardownRaised, error |-> c.error,
     client |-> c.handler.client]

(***************************************************************************)
(* Session.                                                                *)
(***************************************************************************)
Ids == {"u1", "u2", "u3"}

NewDocument(id) == [session_id |-> id, context |-> PyList(<<>>), options |-> PyList(<<>>),
                    plan |-> PyNone]

\* insert_one stores the document with the _id the driver gives it.
Stored(doc, oid) == [k \in DOMAIN doc \cup {"_id"} |-> IF k = "_id" THEN oid ELSE doc[k]]

\* db.sessions.find({"session_id": id}): the matching documents in store order.
Find(st, id) == SelectSeq(st, LAMBDA d : d.session_id = id)

StoredIds(st) == {st[i].session_id : i \in DOMAIN st}

\* str(uuid.uuid4()): a random 122-bit identifier; the store is not consulted.
\* Collisions are taken not to happen.
Uuid4(st) == Ids \ StoredIds(st)

NoSession == [exists |-> FALSE]
NoOp == [op |-> "none", raised |-> FALSE, serverFailed |-> FALSE]

\* Session.__init__(session_id=None), lines 87-95.
SessionNewResult(id, st, ssh, ctorRaises, bodyRaises) ==
    LET c == Connect(NewHandler, ssh, FALSE, ctorRaises, bodyRaises)
        doc == Stored(NewDocument(id), Len(st) + 1)
        inserted == c.bodyRan /\ ~bodyRaises
    IN  [connect |-> c,
         raised |-> c.error # "None",
         error |-> c.error,
         store |-> IF inserted THEN Append(st, doc) ELSE st,
         object |-> [exists |-> TRUE, session_id |-> id, session |-> doc, db |-> c.handler]]

\* Session.__init__(session_id), lines 87-92.
SessionLoadResult(id, st, ssh, ctorRaises, bodyRaises) ==
    LET found == Find(st, id)
        stop == found = <<>>
        c == Connect(NewHandler, ssh, FALSE, ctorRaises, bodyRaises \/ stop)
        err == IF c.teardownRaised \/ ~c.bodyRan THEN c.error
               ELSE IF bodyRaises THEN "BodyError"
               ELSE IF stop THEN "StopIteration" ELSE "None"
    IN  [connect |-> c,
         raised |-> err # "None",
         error |-> err,
         store |-> st,
         object |-> [exists |-> TRUE, session_id |-> id,
                     session |-> IF stop THEN PyNone ELSE found[1], db |-> c.handler]]

\* Session.update, lines 97-99: update_one is called with the filter alone, which
\* pymongo rejects with TypeError before anything is sent; self.session is not
\* assigned.
SessionUpdateResult(obj, st, ssh, ctorRaises) ==
    LET c == Connect(obj.db, ssh, FALSE, ctorRaises, TRUE)
    IN  [connect |-> c,
         raised |-> TRUE,
         error |-> IF c.teardownRaised \/ ~c.bodyRan THEN c.error ELSE "TypeError",
         store |-> st,
         object |-> [obj EXCEPT !.db = c.handler]]

\* Session.__getitem__, lines 101-102: the looked-up value is not returned.
SessionGetItem(obj, item) == PyNone

(***************************************************************************)
(* Agent: construction, system prompt, tools.                              *)
(***************************************************************************)
ToolDescriptor(callable) ==
    [tool |-> callable, type |-> "function", function |-> [name |-> callable]]

\* Agent.__init__, lines 14-24: every descriptor is copied, the copy loses its
\* 'tool' entry, and the callable is filed under the descriptor's function name.
AgentInit(role, goal, backstory, tools) ==
    [role |-> role, goal |-> goal, backstory |-> backstory,
     tools |-> [i \in DOMAIN tools |-> [type |-> tools[i].type, function |-> tools[i].function]],
     available_functions |->
        [n \in {tools[i].function.name : i \in DOMAIN tools} |->
            LET last == CHOOSE i \in DOMAIN tools :
                            /\ tools[i].function.name = n
                            /\ \A j \in DOMAIN tools : tools[j].function.name = n => j <= i
            IN  tools[last].tool]]

\* AgentInitCaller with the bug of popping 'tool' from the caller's own dicts.
AgentInitCallerStripped(tools) ==
    [i \in DOMAIN tools |-> [type |-> tools[i].type, function |-> tools[i].function]]

\* Agent.__init__, lines 19-24, as the caller sees it: the descriptors it passed,
\* after the constructor. t.copy() gives the agent dicts of its own, so the pop
\* of line 24 takes nothing from the caller's.
AgentInitCaller(tools) == tools

ChatAgents == {"context_analyzer", "recommender", "planner"}
AgentNames == ChatAgents \cup {"test_agent"}

\* The agents of Advisor.__init__ (advisor.py 160-193) and of test.py (62-67).
AgentOf(a) ==
    CASE a = "context_analyzer" ->
            AgentInit("Travel Context Analyzer", "Convert user travel queries",
                      "first-line analyzer", <<>>)
      [] a = "recommender" ->
            AgentInit("Travel Recommendation Specialist", "Generate recommendations",
                      "recommendation expert",
                      <<ToolDescriptor("map_search_api"), ToolDescriptor("google_search_api")>>)
      [] a = "planner" ->
            AgentInit("Travel Itinerary Planner", "Create day-by-day travel plans",
                      "final organizer", <<ToolDescriptor("google_search_api")>>)
      [] a = "test_agent" ->
            AgentInit("Weather Assistant", "provide weather information to users",
                      "I am an AI assistant",
                      <<ToolDescriptor("weather_info"), ToolDescriptor("calculate")>>)

\* Agent.create_system_prompt, lines 26-38.
SystemPrompt(ag) ==
    <<"You are an AI agent with the role of", ag.role>>
    \o (IF ag.goal # "" THEN <<"Your goal is to", ag.goal>> ELSE <<>>)
    \o (IF ag.backstory # "" THEN <<"Here is some context about you:", ag.backstory>> ELSE <<>>)
    \o <<"Use the tools provided">>

SystemMessage(ag) == [role |-> "system", content |-> SystemPrompt(ag)]

\* lines 44-47
UserMessage(description, json_output) ==
    [role |-> "user",
     content |-> description \o (IF json_output THEN <<"Please return JSON.">> ELSE <<>>)]

\* lines 71-75
ToolMessage(tool_call, function_response) ==
    [tool_call_id |-> tool_call.id, role |-> "tool", content |-> function_response]

\* self.available_functions.get(function_name), line 65
GetFunction(ag, name) ==
    IF name \in DOMAIN ag.available_functions THEN ag.available_functions[name] ELSE "None"

(***************************************************************************)
(* The tool callables (core/tools.py, test.py) and their call by keyword.  *)
(***************************************************************************)
HttpTools == {"map_search_api", "google_search_api"}
HttpBodies == {<<"search results">>}

Required(callable) ==
    CASE callable = "map_search_api" -> {"term", "lat", "lng"}
      [] callable = "google_search_api" -> {"query"}
      [] callable = "weather_info" -> {"city"}
      [] callable = "calculate" -> {"expression"}

Allowed(callable) ==
    IF callable = "google_search_api" THEN {"query", "include_content"}
    ELSE Required(callable)

\* function_to_call(**function_args), line 69: TypeError unless the keywords fit
\* the signature; an HTTP tool returns the response body, weather_info its text.
CallFunction(callable, args, body) ==
    IF ~(Required(callable) \subseteq DOMAIN args /\ DOMAIN args \subseteq Allowed(callable))
    THEN [ok |-> FALSE, value |-> <<>>]
    ELSE [ok |-> TRUE, value |->
            CASE callable \in HttpTools -> body
              [] callable = "weather_info" -> <<"weather", "Weather info for", args.city>>
              [] callable = "calculate" -> <<"result", args.expression>>]

(***************************************************************************)
(* Agent.task.                                                             *)
(***************************************************************************)
\* What the completion API may put in tool_calls: (function name, argument string).
ToolCallKinds ==
    {[name |-> "google_search_api", arguments |-> QueryArgs],
     [name |-> "google_search_api", arguments |-> BadArgs],
     [name |-> "weather_info", arguments |-> CityArgs],
     [name |-> "weather_info", arguments |-> BadArgs]}

ToolCallLists == UNION {[1..n -> ToolCallKinds] : n \in 0..MaxToolCalls}

ToolCalls(kinds) == [i \in DOMAIN kinds |-> [id |-> i, function |-> kinds[i]]]

\* The tool calls a second response may carry: none, or one well-formed call
\* of the weather tool that test.py registers.
SecondToolCallLists ==
    {kinds \in ToolCallLists :
        /\ Len(kinds) <= 1
        /\ \A i \in DOMAIN kinds : kinds[i].name = "weather_info"
                                     /\ JsonLoads(kinds[i].arguments).ok}

NoTask ==
    [agent |-> "None", status |-> "none", json_output |-> FALSE, tool_calls |-> <<>>,
     idx |-> 0, invoked |-> <<>>, requests |-> <<>>, content |-> "", result |-> PyNone,
     error |-> "None", second_tool_calls |-> <<>>, description |-> <<>>,
     before |-> [tool_messages |-> FALSE, raised |-> FALSE]]

\* lines 49-57
FirstRequest(ag, msgs) ==
    [messages |-> msgs, has_tools |-> TRUE, tools |-> ag.tools, tool_choice |-> "auto"]

\* lines 77-80
SecondRequest(ag, msgs) ==
    [messages |-> msgs, has_tools |-> FALSE, tools |-> <<>>, tool_choice |-> "NOT_GIVEN"]

\* TaskBeginMessages with the bug of appending to the list the agent already holds.
TaskBeginMessagesAppends(a, description, json_output) ==
    messages[a] \o <<SystemMessage(AgentOf(a)), UserMessage(description, json_output)>>

\* lines 42-57: the message list is rebuilt and the first request leaves.
TaskBeginMessages(a, description, json_output) ==
    <<SystemMessage(AgentOf(a)), UserMessage(description, json_output)>>

\* The call's record; before keeps whether the agent's list held tool messages
\* and whether the previous call had raised when this call began.
TaskBegin(a, description, json_output) ==
    [NoTask EXCEPT !.agent = a, !.status = "first_sent", !.json_output = json_output,
                   !.description = description,
                   !.before = [tool_messages |-> Len(messages[a]) > 2,
                               raised |-> task.status = "raised"],
                   !.requests = <<FirstRequest(AgentOf(a),
                                               TaskBeginMessages(a, description, json_output))>>]

\* lines 59-62: the response's tool calls are taken up.
TaskFirstResponse(t, kinds) ==
    [t EXCEPT !.status = "resolving", !.tool_calls = ToolCalls(kinds), !.idx = 1]

\* ResolveStep with the bug of calling the function and losing its output.
ResolveStepDropsMessage(t, msgs, body) ==
    LET tool_call == t.tool_calls[t.idx]
        function_to_call == GetFunction(AgentOf(t.agent), tool_call.function.name)
        function_args == JsonLoads(tool_call.function.arguments)
    IN  IF ~function_args.ok
        THEN [task |-> [t EXCEPT !.status = "raised", !.error = "JSONDecodeError:arguments"],
              messages |-> msgs, called |-> "None"]
        ELSE IF function_to_call = "None"
        THEN [task |-> [t EXCEPT !.idx = @ + 1], messages |-> msgs, called |-> "None"]
        ELSE [task |-> [t EXCEPT !.idx = @ + 1,
                                 !.invoked = Append(@, [call |-> t.idx,
                                                        callable |-> function_to_call,
                                                        args |-> function_args.value])],
              messages |-> msgs, called |-> function_to_call]

\* lines 63-75, one iteration of the loop: [task, messages, called]
ResolveStep(t, msgs, body) ==
    LET tool_call == t.tool_calls[t.idx]
        ag == AgentOf(t.agent)
        function_to_call == GetFunction(ag, tool_call.function.name)
        function_args == JsonLoads(tool_call.function.arguments)
        response == CallFunction(function_to_call, function_args.value, body)
    IN  IF ~function_args.ok
        THEN [task |-> [t EXCEPT !.status = "raised", !.error = "JSONDecodeError:arguments"],
              messages |-> msgs, called |-> "None"]
        ELSE IF function_to_call = "None"
        THEN [task |-> [t EXCEPT !.idx = @ + 1], messages |-> msgs, called |-> "None"]
        ELSE IF ~response.ok
        THEN [task |-> [t EXCEPT !.status = "raised", !.error = "TypeError:call"],
              messages |-> msgs, called |-> "None"]
        ELSE [task |-> [t EXCEPT !.idx = @ + 1,
                                 !.invoked = Append(@, [call |-> t.idx,
                                                        callable |-> function_to_call,
                                                        args |-> function_args.value])],
              messages |-> Append(msgs, ToolMessage(tool_call, response.value)),
              called |-> function_to_call]

\* TaskSendSecond with the bug of attaching the tool schemas again.
TaskSendSecondWithTools(t, msgs) ==
    [t EXCEPT !.status = "second_sent",
              !.requests = Append(@, FirstRequest(AgentOf(t.agent), msgs))]

\* TaskSendSecond with the bug of sending the request twice.
TaskSendSecondTwice(t, msgs) ==
    [t EXCEPT !.status = "second_sent",
              !.requests = @ \o <<SecondRequest(AgentOf(t.agent), msgs),
                                  SecondRequest(AgentOf(t.agent), msgs)>>]

\* lines 77-80
TaskSendSecond(t, msgs) ==
    [t EXCEPT !.status = "second_sent",
              !.requests = Append(@, SecondRequest(AgentOf(t.agent), msgs))]

\* TaskSecondResponse with the bug of decoding whether or not JSON was asked for.
TaskSecondResponseAlwaysDecodes(t, content) ==
    LET decoded == JsonLoads(content)
    IN  IF decoded.ok
        THEN [t EXCEPT !.status = "returned", !.content = content,
                       !.result = [type |-> "json", value |-> decoded.value]]
        ELSE [t EXCEPT !.status = "raised", !.content = content,
                       !.error = "JSONDecodeError:content"]

\* TaskSecondResponse with the bug of falling back to the text when decoding fails.
TaskSecondResponseRecovers(t, content) ==
    LET decoded == JsonLoads(content)
    IN  IF t.json_output /\ decoded.ok
        THEN [t EXCEPT !.status = "returned", !.content = content,
                       !.result = [type |-> "json", value |-> decoded.value]]
        ELSE [t EXCEPT !.status = "returned", !.content = content,
                       !.result = [type |-> "content", content |-> content]]

\* lines 81-86
TaskSecondResponse(t, content) ==
    LET decoded == JsonLoads(content)
    IN  IF ~t.json_output
        THEN [t EXCEPT !.status = "returned", !.content = content,
                       !.result = [type |-> "content", content |-> content]]
        ELSE IF decoded.ok
        THEN [t EXCEPT !.status = "returned", !.content = content,
                       !.result = [type |-> "json", value |-> decoded.value]]
        ELSE [t EXCEPT !.status = "raised", !.content = content,
                       !.error = "JSONDecodeError:content"]

TaskOver == task.status \in {"none", "returned", "raised"}

(***************************************************************************)
(* Advisor.                                                                *)
(***************************************************************************)
NoAdvisor == [exists |-> FALSE]

NoTurn ==
    [status |-> "idle", stage |-> "none", error |-> "None", output |-> <<>>,
     netCalls |-> 0, completions |-> 0, toolCalls |-> 0, taskError |-> "None",
     optionsArg |-> PyNone, prevContext |-> PyNone, prevOptions |-> PyNone,
     stages |-> <<>>]

\* Advisor.__init__, lines 109-193: self.tools once the recommender has been
\* constructed from both descriptors and then the planner from google_search_api.
AdvisorTools ==
    LET tools == [n \in HttpTools |-> ToolDescriptor(n)]
        recommender == AgentInitCaller(<<tools["map_search_api"], tools["google_search_api"]>>)
        planner == AgentInitCaller(<<recommender[2]>>)
    IN  [n \in HttpTools |-> IF n = "map_search_api" THEN recommender[1] ELSE planner[1]]

\* Advisor.__init__, lines 107 and 194-195 (the agents are AgentOf).
AdvisorInit(sessionObject) ==
    [exists |-> TRUE, session |-> sessionObject, tools |-> AdvisorTools,
     context |-> SessionGetItem(sessionObject, "context"),
     options |-> SessionGetItem(sessionObject, "options")]

\* The task descriptions: the fixed prompt text and what the f-string interpolates.
ContextAnalyzeDescription(answer, question, context) ==
    <<"TASK: context summary", question, answer>> \o Repr(context)

RecommendationDescription(context) == <<"TASK: recommendations">> \o Repr(context)

PlanningDescription(options, context) ==
    <<"TASK: itinerary">> \o Repr(options) \o Repr(context)

\* output[key] = value on a dict
SetItem(d, key, value) ==
    [k \in DOMAIN d \cup {key} |-> IF k = key THEN value ELSE d[k]]

\* ChatOptions with the bug of assigning the argument instead of extending.
ChatOptionsAssigns(old, options) ==
    [ok |-> TRUE, value |-> IF options.type = "NoneType" THEN old ELSE options]

\* chat lines 448-449: [ok, value] for the new self.options
ChatOptions(old, options) ==
    IF options.type = "NoneType" THEN [ok |-> TRUE, value |-> old] ELSE IAdd(old, options)

\* NewContext with the bug of keeping the context the turn started with.
NewContextKeepsOld(old, output) == old

\* context_analyze line 272: the new self.context
NewContext(old, output) == output["user_context"]

\* PlanningExcept with the bug of re-raising.
PlanningExceptReraises(error) == error

\* chat lines 452-455: what becomes of an exception raised by self.planning()
PlanningExcept(error) == "None"

Answers == {"beach vacation in Asia this December"}
Questions == {"Hello"}
OptionArgs == {PyNone, PyList(<<"Bali">>)}
TestPrompts == {<<"What is 25 * 4 + 10?">>, <<"What's the weather in Paris?">>}

(***************************************************************************)
(* Initial states.                                                         *)
(***************************************************************************)
InitStores == {<<>>, <<Stored(NewDocument("u1"), 1), Stored(NewDocument("u1"), 2)>>}

InitCommon ==
    /\ use_ssh \in BOOLEAN
    /\ store \in InitStores
    /\ session = NoSession
    /\ advisor = NoAdvisor
    /\ messages = [a \in AgentNames |-> <<>>]
    /\ lastConnect = NoConnect
    /\ lastOp = NoOp
    /\ turn = NoTurn
    /\ task = NoTask
    /\ turns = 0

\* advisor.py starts on its own, empty collection.
Init == InitCommon /\ store = <<>> /\ pc = "line460"
InitSession == InitCommon /\ pc = "api"
InitAgent == InitCommon /\ pc = "test"

(***************************************************************************)
(* Session actions.                                                        *)
(***************************************************************************)
OpLog(op, id, r, serverFailed) ==
    [op |-> op, id |-> id, raised |-> r.raised, error |-> r.error, storeBefore |-> store,
     serverFailed |-> serverFailed]

\* Session(): the constructor without an identifier.
SessionNew ==
    /\ pc = "api"
    /\ Len(store) < MaxDocs
    /\ \E id \in Uuid4(store), ctorRaises \in BOOLEAN, bodyRaises \in BOOLEAN :
         LET r == SessionNewResult(id, store, use_ssh, ctorRaises, bodyRaises)
         IN  /\ store' = r.store
             /\ session' = IF r.raised THEN session ELSE r.object
             /\ lastConnect' = ConnectLog(r.connect)
             /\ lastOp' = OpLog("new", id, r, ctorRaises \/ bodyRaises)
    /\ UNCHANGED <<use_ssh, advisor, messages, pc, turn, task, turns>>

\* Session(session_id): the constructor with an identifier.
SessionLoad ==
    /\ pc = "api"
    /\ \E id \in Ids, ctorRaises \in BOOLEAN, bodyRaises \in BOOLEAN :
         LET r == SessionLoadResult(id, store, use_ssh, ctorRaises, bodyRaises)
         IN  /\ store' = r.store
             /\ session' = IF r.raised THEN session ELSE r.object
             /\ lastConnect' = ConnectLog(r.connect)
             /\ lastOp' = OpLog("load", id, r, ctorRaises \/ bodyRaises)
    /\ UNCHANGED <<use_ssh, advisor, messages, pc, turn, task, turns>>

\* session.update()
SessionUpdate ==
    /\ pc = "api"
    /\ session.exists
    /\ \E ctorRaises \in BOOLEAN :
         LET r == SessionUpdateResult(session, store, use_ssh, ctorRaises)
         IN  /\ store' = r.store
             /\ session' = r.object
             /\ lastConnect' = ConnectLog(r.connect)
             /\ lastOp' = OpLog("update", session.session_id, r, ctorRaises)
    /\ UNCHANGED <<use_ssh, advisor, messages, pc, turn, task, turns>>

\* advisor.py line 460: session = Session()
ProgramSession ==
    /\ pc = "line460"
    /\ \E id \in Uuid4(store), ctorRaises \in BOOLEAN, bodyRaises \in BOOLEAN :
         LET r == SessionNewResult(id, store, use_ssh, ctorRaises, bodyRaises)
         IN  /\ store' = r.store
             /\ session' = IF r.raised THEN session ELSE r.object
             /\ lastConnect' = ConnectLog(r.connect)
             /\ lastOp' = OpLog("new", id, r, ctorRaises \/ bodyRaises)
             /\ pc' = IF r.raised THEN "crashed" ELSE "line461"
    /\ UNCHANGED <<use_ssh, advisor, messages, turn, task, turns>>

\* advisor.py line 461: advisor = Advisor(session.session_id)
ProgramAdvisor ==
    /\ pc = "line461"
    /\ \E ctorRaises \in BOOLEAN, bodyRaises \in BOOLEAN :
         LET r == SessionLoadResult(session.session_id, store, use_ssh, ctorRaises, bodyRaises)
         IN  /\ store' = r.store
             /\ advisor' = IF r.raised THEN advisor ELSE AdvisorInit(r.object)
             /\ lastConnect' = ConnectLog(r.connect)
             /\ lastOp' = OpLog("load", session.session_id, r, ctorRaises \/ bodyRaises)
             /\ pc' = IF r.raised THEN "crashed" ELSE "loop"
    /\ UNCHANGED <<use_ssh, session, messages, turn, task, turns>>

(***************************************************************************)
(* Agent.task actions.                                                     *)
(***************************************************************************)
Running == turn.status = "running"

\* test.py lines 71 and 75: agent.task(user_prompt)
TestTask ==
    /\ pc = "test"
    /\ TaskOver
    /\ turns < MaxTurns
    /\ \E prompt \in TestPrompts, json_output \in BOOLEAN :
         /\ task' = TaskBegin("test_agent", prompt, json_output)
         /\ messages' = [messages EXCEPT
                           !["test_agent"] = TaskBeginMessages("test_agent", prompt, json_output)]
    /\ turns' = turns + 1
    /\ UNCHANGED <<use_ssh, store, session, advisor, lastConnect, lastOp, pc, turn>>

\* the first completion response arrives
AgentFirstResponse ==
    /\ task.status = "first_sent"
    /\ \E kinds \in ToolCallLists : task' = TaskFirstResponse(task, kinds)
    /\ UNCHANGED <<use_ssh, store, session, advisor, messages, lastConnect, lastOp, pc,
                   turn, turns>>

\* one tool call of the response is resolved
AgentResolveToolCall ==
    /\ task.status = "resolving"
    /\ task.idx <= Len(task.tool_calls)
    /\ \E body \in HttpBodies :
         LET r == ResolveStep(task, messages[task.agent], body)
         IN  /\ task' = r.task
             /\ messages' = [messages EXCEPT ![task.agent] = r.messages]
    /\ UNCHANGED <<use_ssh, store, session, advisor, lastConnect, lastOp, pc, turn, turns>>

\* the second completion request leaves
AgentSendSecond ==
    /\ task.status = "resolving"
    /\ task.idx > Len(task.tool_calls)
    /\ task' = TaskSendSecond(task, messages[task.agent])
    /\ UNCHANGED <<use_ssh, store, session, advisor, messages, lastConnect, lastOp, pc,
                   turn, turns>>

\* the second completion response arrives and task returns or raises; line 81
\* reads the content of the response message and nothing else of it
AgentSecondResponse ==
    /\ task.status = "second_sent"
    /\ \E content \in Contents, kinds \in SecondToolCallLists :
         task' = [TaskSecondResponse(task, content) EXCEPT
                     !.second_tool_calls = ToolCalls(kinds)]
    /\ UNCHANGED <<use_ssh, store, session, advisor, messages, lastConnect, lastOp, pc,
                   turn, turns>>

(***************************************************************************)
(* Advisor.chat actions.                                                   *)
(***************************************************************************)
\* The outbound calls of a finished task, added to the turn's: its completion
\* requests and the HTTP request of every search tool it invoked.
HttpInvocations(t) == {i \in DOMAIN t.invoked : t.invoked[i].callable \in HttpTools}

Account(tu, t) ==
    [tu EXCEPT !.completions = @ + Len(t.requests),
               !.toolCalls = @ + Len(t.invoked),
               !.netCalls = @ + Len(t.requests) + Cardinality(HttpInvocations(t)),
               !.taskError = t.error]

\* chat lines 447-450 up to the first completion request of context_analyze
ChatCall ==
    /\ pc = "loop"
    /\ turn.status # "running"
    /\ turns < MaxTurns
    /\ \E answer \in Answers, question \in Questions, options \in OptionArgs :
         LET added == ChatOptions(advisor.options, options)
             description == ContextAnalyzeDescription(answer, question, advisor.context)
             begun == [NoTurn EXCEPT !.optionsArg = options,
                                     !.prevContext = advisor.context,
                                     !.prevOptions = advisor.options]
         IN  IF ~added.ok
             THEN /\ turn' = [begun EXCEPT !.status = "raised", !.stage = "options",
                                           !.error = "TypeError:options"]
                  /\ UNCHANGED <<advisor, task, messages>>
             ELSE /\ advisor' = [advisor EXCEPT !.options = added.value]
                  /\ turn' = [begun EXCEPT !.status = "running", !.stage = "context_analyze",
                                           !.stages = <<"context_analyze">>]
                  /\ task' = TaskBegin("context_analyzer", description, TRUE)
                  /\ messages' = [messages EXCEPT !["context_analyzer"] =
                                     TaskBeginMessages("context_analyzer", description, TRUE)]
    /\ turns' = turns + 1
    /\ UNCHANGED <<use_ssh, store, session, lastConnect, lastOp, pc>>

\* context_analyze lines 272-274 and chat line 451 up to the first completion
\* request of recommendation
ContextAnalyzeReturn ==
    /\ Running
    /\ turn.stage = "context_analyze"
    /\ task.status \in {"returned", "raised"}
    /\ IF task.status = "raised"
       THEN /\ turn' = [Account(turn, task) EXCEPT !.status = "raised", !.error = task.error]
            /\ UNCHANGED <<advisor, task, messages>>
       ELSE IF "user_context" \notin DOMAIN task.result.value
       THEN /\ turn' = [Account(turn, task) EXCEPT !.status = "raised",
                                                   !.error = "KeyError:user_context"]
            /\ UNCHANGED <<advisor, task, messages>>
       ELSE LET context == NewContext(advisor.context, task.result.value)
                description == RecommendationDescription(context)
            IN  /\ advisor' = [advisor EXCEPT !.context = context]
                /\ turn' = [Account(turn, task) EXCEPT !.stage = "recommendation",
                                                       !.stages = Append(@, "recommendation"),
                                                       !.output = task.result.value]
                /\ task' = TaskBegin("recommender", description, TRUE)
                /\ messages' = [messages EXCEPT !["recommender"] =
                                   TaskBeginMessages("recommender", description, TRUE)]
    /\ UNCHANGED <<use_ssh, store, session, lastConnect, lastOp, pc, turns>>

\* chat lines 451-453 up to the first completion request of planning
RecommendationReturn ==
    /\ Running
    /\ turn.stage = "recommendation"
    /\ task.status \in {"returned", "raised"}
    /\ IF task.status = "raised"
       THEN /\ turn' = [Account(turn, task) EXCEPT !.status = "raised", !.error = task.error]
            /\ UNCHANGED <<task, messages>>
       ELSE LET description == PlanningDescription(advisor.options, advisor.context)
            IN  /\ turn' = [Account(turn, task) EXCEPT
                                !.stage = "planning",
                                !.stages = Append(@, "planning"),
                                !.output = SetItem(@, "recommendation", task.result.value)]
                /\ task' = TaskBegin("planner", description, TRUE)
                /\ messages' = [messages EXCEPT !["planner"] =
                                   TaskBeginMessages("planner", description, TRUE)]
    /\ UNCHANGED <<use_ssh, store, session, advisor, lastConnect, lastOp, pc, turns>>

\* chat lines 453-457
PlanningReturn ==
    /\ Running
    /\ turn.stage = "planning"
    /\ task.status \in {"returned", "raised"}
    /\ IF task.status = "raised"
       THEN turn' = IF PlanningExcept(task.error) = "None"
                    THEN [Account(turn, task) EXCEPT !.status = "returned"]
                    ELSE [Account(turn, task) EXCEPT !.status = "raised",
                                                     !.error = PlanningExcept(task.error)]
       ELSE turn' = [Account(turn, task) EXCEPT
                        !.status = "returned",
                        !.output = SetItem(@, "planning", task.result.value)]
    /\ UNCHANGED <<use_ssh, store, session, advisor, messages, lastConnect, lastOp, pc,
                   task, turns>>

(***************************************************************************)
(* Specifications.                                                         *)
(***************************************************************************)
NextSession == SessionNew \/ SessionLoad \/ SessionUpdate

NextAgent ==
    \/ TestTask
    \/ AgentFirstResponse
    \/ AgentResolveToolCall
    \/ AgentSendSecond
    \/ AgentSecondResponse

Next ==
    \/ ProgramSession
    \/ ProgramAdvisor
    \/ ChatCall
    \/ AgentFirstResponse
    \/ AgentResolveToolCall
    \/ AgentSendSecond
    \/ AgentSecondResponse
    \/ ContextAnalyzeReturn
    \/ RecommendationReturn
    \/ PlanningReturn

Spec == Init /\ [][Next]_vars
SpecSession == InitSession /\ [][NextSession]_vars
SpecAgent == InitAgent /\ [][NextAgent]_vars

(***************************************************************************)
(* Properties of Agent.task (SpecAgent; they hold under Spec as well).     *)
(***************************************************************************)
Registered(t, i) ==
    GetFunction(AgentOf(t.agent), t.tool_calls[i].function.name) # "None"

\* The tool calls the loop has gone through whose name is registered, in order.
ResolvedCalls(t) ==
    SelectSeq([i \in 1..(IF t.idx > 0 THEN t.idx - 1 ELSE 0) |-> i],
              LAMBDA i : Registered(t, i))

ToolMessages(msgs) == SelectSeq(msgs, LAMBDA m : m.role = "tool")

\* C1: when the first response carries no tool call, exactly one second request
\* goes out (two requests in all, the second without tools), no callable is
\* invoked, no tool message is appended, and task returns the second response's
\* content unchanged without json_output and its JSON decoding with it.
C1_NoToolCalls ==
    (task.status \in {"resolving", "second_sent", "returned", "raised"} /\ task.tool_calls = <<>>)
    => /\ task.invoked = <<>>
       /\ ToolMessages(messages[task.agent]) = <<>>
       /\ Len(task.requests) = IF task.status = "resolving" THEN 1 ELSE 2
       /\ task.status # "resolving" => /\ task.requests[1].has_tools
                                       /\ ~task.requests[2].has_tools
       /\ (task.status \in {"returned", "raised"} /\ ~task.json_output)
             => /\ task.status = "returned"
                /\ task.result = [type |-> "content", content |-> task.content]
       /\ (task.status \in {"returned", "raised"} /\ task.json_output
              /\ JsonLoads(task.content).ok)
             => /\ task.status = "returned"
                /\ task.result = [type |-> "json", value |-> JsonLoads(task.content).value]

C1_Witness ==
    /\ task.tool_calls = <<>>
    /\ task.status = "returned"
    /\ ~task.json_output
    /\ task.content = Ctx1Json
    /\ Len(task.requests) = 2

\* C2: every tool call with a registered name that the loop goes through makes
\* the matching callable run exactly once with the decoded arguments and appends
\* a tool message with the call's id and the raw output; the tool messages come
\* in the order of the calls, after the system and the user message; the second
\* request is sent only after the whole list has been gone through and carries
\* these messages.
C2_ResolvedBeforeSecond ==
    task.status # "none" =>
      LET reg == ResolvedCalls(task)
          msgs == messages[task.agent]
      IN  /\ Len(task.invoked) = Len(reg)
          /\ Len(msgs) = 2 + Len(reg)
          /\ msgs[1].role = "system"
          /\ msgs[2].role = "user"
          /\ \A k \in DOMAIN reg :
               LET call == task.tool_calls[reg[k]]
                   decoded == JsonLoads(call.function.arguments)
               IN  /\ task.invoked[k].call = reg[k]
                   /\ task.invoked[k].callable =
                         AgentOf(task.agent).available_functions[call.function.name]
                   /\ decoded.ok
                   /\ task.invoked[k].args = decoded.value
                   /\ msgs[2 + k].role = "tool"
                   /\ msgs[2 + k].tool_call_id = call.id
                   /\ \E body \in HttpBodies :
                        msgs[2 + k].content =
                           CallFunction(task.invoked[k].callable, decoded.value, body).value
          /\ Len(task.requests) = 2 =>
               /\ task.idx = Len(task.tool_calls) + 1
               /\ task.requests[2].messages = msgs

C2_Witness ==
    /\ task.status = "second_sent"
    /\ Len(task.tool_calls) = 2
    /\ ~Registered(task, 1)
    /\ Registered(task, 2)
    /\ Len(task.invoked) = 1
    /\ Len(task.requests[2].messages) = 3

\* C12: a task sends at most two completion requests and exactly two when it
\* returns; the first carries the agent's tool schemas with tool_choice "auto",
\* the second carries no tools; every invocation belongs to a tool call of the
\* first response, so there are never more invocations than such calls, and a
\* tool call in the second response invokes nothing and appends no message.
C12_OneRound ==
    task.status # "none" =>
      /\ Len(task.requests) \in {1, 2}
      /\ task.requests[1].has_tools
      /\ task.requests[1].tools = AgentOf(task.agent).tools
      /\ task.requests[1].tool_choice = "auto"
      /\ Len(task.requests) = 2 =>
           /\ ~task.requests[2].has_tools
           /\ task.requests[2].tools = <<>>
           /\ messages[task.agent] = task.requests[2].messages
      /\ task.status = "returned" => Len(task.requests) = 2
      /\ Len(task.invoked) <= Len(task.tool_calls)
      /\ \A k \in DOMAIN task.invoked : task.invoked[k].call \in DOMAIN task.tool_calls
      /\ Len(ToolMessages(messages[task.agent])) = Len(task.invoked)

\* a task has returned whose first response held no tool call and whose second
\* response held a call of a registered tool
C12_Witness ==
    /\ task.status = "returned"
    /\ task.tool_calls = <<>>
    /\ Len(task.second_tool_calls) = 1
    /\ GetFunction(AgentOf(task.agent), task.second_tool_calls[1].function.name) # "None"
    /\ task.invoked = <<>>
    /\ Len(task.requests) = 2

\* C13: the first completion request of every task call carries exactly two
\* messages, the system prompt built from the agent's role, goal and backstory
\* and the user message of this call, whatever the agent's list held before.
C13_MessagesRebuilt ==
    task.status # "none" =>
      LET first == task.requests[1].messages
          ag == AgentOf(task.agent)
      IN  /\ Len(first) = 2
          /\ first[1] = [role |-> "system", content |-> SystemPrompt(ag)]
          /\ first[2] = UserMessage(task.description, task.json_output)
          /\ ToolMessages(first) = <<>>

\* the second call on the agent has begun after a call that appended a tool
\* message and then raised
C13_Witness ==
    /\ turns = 2
    /\ task.agent = "test_agent"
    /\ task.status = "first_sent"
    /\ task.before.tool_messages
    /\ task.before.raised
    /\ Len(task.requests[1].messages) = 2

\* C3: a tool call that names an unregistered tool never makes task raise and
\* never gets a tool message, whatever its argument string.
C3_UnregisteredNeverRaises ==
    \A i \in DOMAIN task.tool_calls :
      ~Registered(task, i) =>
        /\ ~(task.status = "raised" /\ Len(task.requests) = 1 /\ task.idx = i)
        /\ \A m \in DOMAIN messages[task.agent] :
             messages[task.agent][m].role = "tool"
                => messages[task.agent][m].tool_call_id # task.tool_calls[i].id

(***************************************************************************)
(* Properties of Advisor.chat (Spec).                                      *)
(***************************************************************************)
TurnOver == turn.status \in {"returned", "raised"}

\* The context-analysis output as the completion API can have sent it.
ContextOutputs == {JsonLoads(c).value : c \in {c \in Contents : JsonLoads(c).ok}}

WithoutKeys(d, keys) == [k \in DOMAIN d \ keys |-> d[k]]

\* C4: once context analysis and recommendation are done, an exception of the
\* planning stage is swallowed: chat returns the context-analysis output
\* (following_question included) with the recommendation key and without a
\* planning key.
C4_PlanningSwallowed ==
    (TurnOver /\ turn.stage = "planning" /\ turn.taskError # "None")
    => /\ turn.status = "returned"
       /\ turn.error = "None"
       /\ DOMAIN turn.output = {"user_context", "following_question", "recommendation"}
       /\ WithoutKeys(turn.output, {"recommendation"}) \in ContextOutputs
       /\ turn.output["user_context"] = advisor.context

C4_Witness ==
    /\ turn.status = "returned"
    /\ turn.stage = "planning"
    /\ turn.taskError = "TypeError:call" \/ turn.taskError = "JSONDecodeError:arguments"
    /\ "following_question" \in DOMAIN turn.output

\* C5 as claimed: in every stage a JSON decode failure of the second response
\* ends the turn with that failure.
C5_DecodeFailureEndsTurn ==
    (TurnOver /\ turn.taskError = "JSONDecodeError:content")
    => (turn.status = "raised" /\ turn.error = "JSONDecodeError:content")

\* C5 as amended: the decode failure always leaves Agent.task; it leaves chat in
\* the context-analysis and recommendation stages, and in the planning stage chat
\* catches it and returns without a planning key.
C5_DecodeFailure ==
    /\ (task.status \in {"returned", "raised"} /\ Len(task.requests) = 2
           /\ task.json_output /\ ~JsonLoads(task.content).ok)
       => (task.status = "raised" /\ task.error = "JSONDecodeError:content")
    /\ (TurnOver /\ turn.taskError = "JSONDecodeError:content")
       => IF turn.stage \in {"context_analyze", "recommendation"}
          THEN turn.status = "raised" /\ turn.error = "JSONDecodeError:content"
          ELSE /\ turn.stage = "planning"
               /\ turn.status = "returned"
               /\ "planning" \notin DOMAIN turn.output

C5_Witness ==
    /\ turn.status = "raised"
    /\ turn.stage = "recommendation"
    /\ turn.error = "JSONDecodeError:content"
    /\ task.content = PlainText

\* C6 as claimed: after every chat call the previous context and the previous
\* options are a prefix of the new ones.
C6_ContextAndOptionsGrow ==
    advisor.exists =>
      /\ GrowsFrom(turn.prevContext, advisor.context)
      /\ GrowsFrom(turn.prevOptions, advisor.options)

\* C6 as amended: chat never replaces the options (they stay as they were, or are
\* extended at the end by the options argument) and never touches the stored or
\* loaded session document; the context is replaced by the user_context of the
\* turn's context analysis.
C6_OptionsKeptContextReplaced ==
    advisor.exists =>
      /\ \/ advisor.options = turn.prevOptions
         \/ /\ turn.prevOptions.type = "list"
            /\ turn.optionsArg.type = "list"
            /\ advisor.options = PyList(turn.prevOptions.items \o turn.optionsArg.items)
      /\ advisor.session.session = Stored(NewDocument(advisor.session.session_id), 1)
      /\ store = <<advisor.session.session>>
      /\ advisor.context =
            IF turn.stage \in {"recommendation", "planning"}
            THEN turn.output["user_context"] ELSE turn.prevContext

C6_Witness ==
    /\ turns = 2
    /\ turn.optionsArg.type = "list"
    /\ TurnOver
    /\ advisor.context = PyStr(<<"ski">>)

\* C9: after a chat turn that changed the context, the options or the plan, the
\* stored document of the session holds the in-memory values.
C9_StoredEqualsMemory ==
    (turn.status = "returned" /\ advisor.context # turn.prevContext)
    => LET docs == Find(store, advisor.session.session_id)
       IN  /\ docs # <<>>
           /\ docs[1].context = advisor.context
           /\ docs[1].options = advisor.options

\* C10 as claimed: a chat turn issues between two and six outbound calls.
C10_TwoToSixCalls ==
    turn.status = "returned" => (2 <= turn.netCalls /\ turn.netCalls <= 6)

\* C10 as amended: a chat turn that returns has issued two completion requests
\* for context analysis, two for recommendation and one or two for planning, one
\* more call for every search tool it invoked, and no session read or write: at
\* least five calls, and six plus the tool invocations when planning completed.
C10_CallsPerTurn ==
    turn.status = "returned" =>
      /\ turn.completions \in {5, 6}
      /\ turn.netCalls = turn.completions + turn.toolCalls
      /\ turn.netCalls >= 5
      /\ turn.taskError = "None" => turn.netCalls = 6 + turn.toolCalls
      /\ lastOp.op = "load"
      /\ Len(store) = 1

C10_Witness ==
    /\ turn.status = "returned"
    /\ turn.netCalls > 6
    /\ turn.toolCalls > 0

ChatStages == <<"context_analyze", "recommendation", "planning">>

StageAgent(stage) ==
    CASE stage = "context_analyze" -> "context_analyzer"
      [] stage = "recommendation" -> "recommender"
      [] stage = "planning" -> "planner"

\* C11: the stages a turn has started are, in order, context analysis,
\* recommendation, planning, each started once and run as one task (at most two
\* completion requests each); recommendation and planning run only once context
\* analysis has returned and its user_context has become the advisor's context,
\* and their prompts are built from that context; a turn that raised stopped
\* at the stage that raised, and a turn that returned went through all three.
C11_StagesInOrder ==
    /\ IsPrefix(turn.stages, ChatStages)
    /\ turn.completions <= 2 * Len(turn.stages)
    /\ Running =>
         /\ turn.stages # <<>>
         /\ turn.stage = turn.stages[Len(turn.stages)]
         /\ task.agent = StageAgent(turn.stage)
         /\ Len(task.requests[1].messages) = 2
    /\ (Running /\ Len(turn.stages) >= 2) =>
         /\ "user_context" \in DOMAIN turn.output
         /\ advisor.context = turn.output["user_context"]
         /\ turn.stage = "recommendation" =>
              task.requests[1].messages[2]
                = UserMessage(RecommendationDescription(turn.output["user_context"]), TRUE)
         /\ turn.stage = "planning" =>
              task.requests[1].messages[2]
                = UserMessage(PlanningDescription(advisor.options,
                                                  turn.output["user_context"]), TRUE)
    /\ turn.status = "raised" =>
         \/ turn.stage = "options" /\ turn.stages = <<>>
         \/ turn.stage = "context_analyze" /\ turn.stages = <<"context_analyze">>
         \/ turn.stage = "recommendation"
              /\ turn.stages = <<"context_analyze", "recommendation">>
    /\ turn.status = "returned" => turn.stages = ChatStages

\* the second turn's planning request is out, built from a context that differs
\* from the one the turn started with
C11_Witness ==
    /\ turns = 2
    /\ Running
    /\ turn.stage = "planning"
    /\ task.status = "first_sent"
    /\ turn.prevContext # advisor.context
    /\ turn.prevContext # PyNone

\* Every agent of the advisor holds descriptors without a callable and a name
\* table with exactly the names of its descriptors, each mapped to the callable
\* the descriptor was written with.
ChatAgentsStripped ==
    \A a \in ChatAgents :
       LET ag == AgentOf(a)
           names == {ag.tools[i].function.name : i \in DOMAIN ag.tools}
       IN  /\ \A i \in DOMAIN ag.tools : "tool" \notin DOMAIN ag.tools[i]
           /\ DOMAIN ag.available_functions = names
           /\ \A n \in names : ag.available_functions[n] = ToolDescriptor(n).tool

C7_ScopeReleases ==
    lastConnect.entered =>
      /\ lastConnect.clientOpened => lastConnect.clientClosed
      /\ lastConnect.tunnelStarted => lastConnect.tunnelStopped
      /\ ~lastConnect.teardownRaised

\* C8: Session() inserts exactly one fresh document with empty context and
\* options and no plan; Session(id) inserts nothing and loads the first stored
\* document with that identifier, raising when there is none (the database
\* server answering in both cases).
C8_SessionConstruction ==
    /\ (lastOp.op = "new" /\ ~lastOp.serverFailed)
       => /\ ~lastOp.raised
          /\ lastOp.id \notin StoredIds(lastOp.storeBefore)
          /\ store = Append(lastOp.storeBefore,
                            Stored(NewDocument(lastOp.id), Len(lastOp.storeBefore) + 1))
          /\ session.session_id = lastOp.id
    /\ lastOp.op = "load"
       => /\ store = lastOp.storeBefore
          /\ Find(store, lastOp.id) = <<>> => lastOp.raised
          /\ ~lastOp.raised => session.session = Find(store, lastOp.id)[1]

====
